---------------------------- MODULE Spec2Model ----------------------------
(***************************************************************************)
(* Board mechanics of the 4x4 sliding-tile game in src/main.py (class     *)
(* Board): move, has_moves, restart and _spawn_random_tile, driven through *)
(* the calls the game loop and the tests make, and the turn loop of play   *)
(* with read_command decoding the characters typed.                        *)
(*                                                                         *)
(* A grid is a sequence of SIZE rows, each a sequence of SIZE naturals     *)
(* (0 = empty).  Python's 0-based index k is index k+1 here.               *)
(*                                                                         *)
(* random.Random(seed) is a fixed stream of 32-bit words, one stream per   *)
(* seed.  Neither choice nor random() looks below the top 27 bits of a     *)
(* word, so a stream is written as the top 27 bits of its first words.     *)
(* choice(seq) is seq[_randbelow(len(seq))]: it takes the top              *)
(* bit_length(len(seq)) bits of one word and takes another word while the  *)
(* value is not below len(seq).  random() takes two words a, b and returns *)
(* ((a >> 5) * 2^26 + (b >> 6)) / 2^53, kept here as the pair              *)
(* [hi |-> a >> 5, lo |-> b >> 6].  Each Board instance holds its own      *)
(* position in the stream, the number of words taken so far.  `twin` is   *)
(* the instance of a second run with the same seed: it is given the calls  *)
(* made on `board`, in their order, at its own pace.                       *)
(***************************************************************************)
EXTENDS Integers, Sequences, FiniteSets

VARIABLES
    seed,     \* the word stream of the seed both generators were built from
    board,    \* the Board instance: [grid, score, pos]
    twin,     \* the instance of a second run, built from an identical seed
    last,     \* the call just made: arguments, pre-state, result, spawn steps
    merges,   \* running sum of the merge events observed since the last reset
    script    \* the calls of the first run that the second repeats, and how
              \* many of them it has been given: [calls, replayed]

vars == <<seed, board, twin, last, merges, script>>

\* ------------------------------------------------------------------ bounds

\* Words of its stream a generator may take in a run, the constructor's
\* included.
MaxWords == 18

\* The seeds given to play: 0 .. NumSeeds - 1.
NumSeeds == 12

\* Calls of a run that a second run repeats.
MaxCalls == 3

\* Rows the test harness builds boards from (board_from_rows).
RowSet ==
    { <<0, 0, 0, 0>>, <<2, 2, 2, 0>>, <<2, 4, 8, 16>>, <<2, 4, 2, 4>>,
      <<4, 2, 4, 2>>, <<2, 2, 4, 4>>, <<4, 4, 8, 0>> }

\* Strings handed to move as its direction.
Inputs == {"w", "a", "s", "d", "W", "x", "WW", "É"}

\* --------------------------------------------------------------- constants

SIZE == 4

\* The float 0.10 the draw is compared with, on the scale of random(): the
\* double 0.1 is (hi * 2^26 + lo + 1/4) / 2^53.
FourThreshold == [hi |-> 13421772, lo |-> 53687091]

\* ----------------------------------------------------------------- helpers

Reverse(s) == [k \in 1..Len(s) |-> s[Len(s) + 1 - k]]

Zeros(n) == [k \in 1..n |-> 0]

EmptyGrid == [r \in 1..SIZE |-> Zeros(SIZE)]

\* str.lower() of one character, for the characters of Latin-1: the
\* upper-case letters are replaced by their lower-case forms, every other
\* character is left as it is.
LowerChar(ch) ==
    LET upper == << "A", "B", "C", "D", "E", "F", "G", "H", "I", "J", "K", "L", "M", "N",
                    "O", "P", "Q", "R", "S", "T", "U", "V", "W", "X", "Y", "Z", "À", "Á",
                    "Â", "Ã", "Ä", "Å", "Æ", "Ç", "È", "É", "Ê", "Ë", "Ì", "Í", "Î", "Ï",
                    "Ð", "Ñ", "Ò", "Ó", "Ô", "Õ", "Ö", "Ø", "Ù", "Ú", "Û", "Ü", "Ý", "Þ" >>
        lower == << "a", "b", "c", "d", "e", "f", "g", "h", "i", "j", "k", "l", "m", "n",
                    "o", "p", "q", "r", "s", "t", "u", "v", "w", "x", "y", "z", "à", "á",
                    "â", "ã", "ä", "å", "æ", "ç", "è", "é", "ê", "ë", "ì", "í", "î", "ï",
                    "ð", "ñ", "ò", "ó", "ô", "õ", "ö", "ø", "ù", "ú", "û", "ü", "ý", "þ" >>
    IN  IF \E i \in 1..Len(upper) : upper[i] = ch
        THEN lower[CHOOSE i \in 1..Len(upper) : upper[i] = ch]
        ELSE ch

RECURSIVE Lower(_)
Lower(s) ==
    IF s = "" THEN ""
    ELSE LowerChar(SubSeq(s, 1, 1)) \o Lower(SubSeq(s, 2, Len(s)))

\* ------------------------------------------------------------ RandomSource

\* The leading words of the streams of random.Random(0), random.Random(1),
\* ...: the 32-bit outputs of the generator in order, each cut to its top
\* WordBits bits (the bits the calls below read).
MTWords ==
 <<
    <<
      113336382, 51706749, 101730917, 119486516, 56448162, 5433721, 34751217,
      129582503, 68622131, 65220111, 54349339, 123243325, 105199665,
      111380971, 40709944, 129895916, 63967760, 48056573, 78300211,
      119676667, 121884848, 29318886, 67737923, 18693000 >>,
    <<
      18034063, 76397250, 113740630, 107678193, 102512094, 8470054, 34234785,
      15826780, 66496171, 102134650, 60329669, 63383683, 87455328, 50951092,
      105860656, 28179657, 12597620, 65479012, 3804733, 119898983, 112174493,
      52319252, 58085012, 81528947 >>,
    <<
      128316747, 115844572, 127215251, 113958270, 7590196, 12292302,
      11391326, 48460313, 112138761, 22694018, 98780219, 108577047, 89889692,
      114599711, 41357375, 33766938, 81328449, 28483526, 81443550, 4796195,
      78007882, 91435315, 21257788, 134179985 >>,
    <<
      31939071, 79542916, 73045210, 17505051, 49654541, 122936031, 81056775,
      63626388, 83982757, 77960647, 8795134, 81282193, 1767377, 121979540,
      112403197, 62979298, 34809906, 73925063, 31451369, 25735457, 133633187,
      96253980, 63117699, 72608285 >>,
    <<
      31681838, 40708047, 13846710, 96800094, 53158037, 64273970, 20800026,
      12093050, 8927505, 2659816, 53900633, 73739467, 123205840, 38839355,
      107434895, 132878882, 102698386, 7898318, 29786695, 69838754, 72031971,
      48351253, 37135715, 104655676 >>,
    <<
      83604450, 34285249, 99560964, 48121821, 106729073, 92670206, 126493535,
      112945689, 99307505, 87514212, 123792365, 71140745, 3893015, 112789615,
      62494814, 104147395, 126615195, 33427281, 87103890, 6959625, 120916817,
      21052228, 15194247, 49901259 >>,
    <<
      106480303, 77016831, 110320804, 10813867, 65100245, 102303011,
      35114241, 4942265, 60628, 19539150, 88962001, 78716606, 63116457,
      129589601, 101969319, 98628054, 50084737, 42867218, 103366419, 2937999,
      36600917, 65611164, 107631274, 26589460 >>,
    <<
      43464097, 127220335, 20246633, 52992312, 87366946, 6480894, 9722233,
      110229569, 71924865, 12633920, 49081935, 78220482, 7784483, 122098412,
      68106871, 28816302, 5032582, 11535642, 58202938, 56126116, 9375836,
      32301241, 12175294, 73960310 >>,
    <<
      30427945, 49715839, 129157053, 50381235, 16955846, 25919677, 94598926,
      5875845, 11433373, 18366758, 33210966, 108886016, 134100762, 67962541,
      28104874, 53782417, 86150123, 4065955, 61623890, 65417999, 60818405,
      52409069, 66435452, 76923525 >>,
    <<
      62143795, 82304355, 50105079, 35854175, 18594445, 24983952, 116307962,
      90817562, 863698, 45409281, 67482268, 62239650, 120567512, 81161302,
      10846758, 44831943, 74392922, 125679583, 82765367, 93965603, 5488936,
      97736307, 50871150, 22738389 >>,
    <<
      76692358, 4373493, 57564514, 64768331, 77590101, 1990777, 27662036,
      62086504, 109162130, 65940689, 110540227, 37248192, 87707598,
      108799412, 21505647, 4617569, 69883058, 65778173, 43992922, 10212539,
      33553985, 127828860, 127884920, 100065583 >>,
    <<
      60717355, 116197962, 75131377, 115006205, 124045444, 104853312,
      62498494, 60643907, 68161301, 114762282, 78837457, 25488219, 24784691,
      107897673, 68707214, 63855860, 84541427, 82404159, 106431554, 24987809,
      12633036, 59940718, 40721828, 19031420 >>,
    <<
      63695798, 36103891, 88244465, 71018730, 89444099, 46947398, 19139495,
      51222991, 1457663, 133764371, 50298696, 64765263, 36782118, 86356860,
      108763074, 61769451, 92689776, 116010360, 80726197, 30553909, 74919000,
      223590, 88761013, 83783119 >>,
    <<
      34763531, 39024836, 91973770, 122076410, 91815920, 107643242,
      113995969, 119453477, 24927476, 87511264, 30945052, 89413912, 19751469,
      116666204, 30220857, 86027814, 98518980, 25148935, 17476896, 9506221,
      71311858, 113520093, 28710182, 99950891 >>,
    <<
      14338283, 82661823, 94299432, 101361933, 87515598, 70747761, 126211961,
      33143088, 36388469, 98667724, 34329608, 39059506, 98523780, 9747679,
      88375665, 60363287, 40666357, 62628454, 91836215, 117148182, 53240635,
      52856232, 104356509, 121993607 >>,
    <<
      129552607, 28048866, 1564266, 69969969, 98783123, 4855520, 21208108,
      122542643, 132384240, 32071323, 2265683, 7375024, 118043319, 108028408,
      91449338, 19763339, 115070546, 93251426, 134193063, 49297169, 32174027,
      15720900, 45376028, 62589723 >>
 >>

\* The same for random.Random(99).
MTWords99 ==
    <<
      54221019, 51103753, 26853671, 80455354, 23998441, 30905340, 33343887,
      17883760, 101989023, 11620366, 33708917, 97848887, 51414460, 71244461,
      91846350, 94017934, 72293578, 12057623, 125946809, 83741078, 65669373,
      26772158, 56591467, 96935480 >>

\* random.Random(seed): the words the generator will output.
random_Random(n) == IF n = 99 THEN MTWords99 ELSE MTWords[n + 1]

Seeds == {random_Random(n) : n \in 0..(NumSeeds - 1)}

WordBits == 27

\* The k-th word (k >= 1) of stream sd; 0 past the words that are known (no
\* step is taken that reads one).
rng_word(sd, k) == IF k <= Len(sd) THEN sd[k] ELSE 0

\* int.bit_length()
RECURSIVE bit_length(_)
bit_length(n) == IF n = 0 THEN 0 ELSE 1 + bit_length(n \div 2)

\* getrandbits(k) for k <= WordBits, of a generator that has output pos
\* words: the top k bits of the next word.
getrandbits(sd, pos, k) == rng_word(sd, pos + 1) \div (2 ^ (WordBits - k))

\* _randbelow(n): getrandbits(n.bit_length()) until the value is below n.
\* The result and the position after it.
RECURSIVE randbelow(_, _, _)
randbelow(sd, pos, n) ==
    LET r == getrandbits(sd, pos, bit_length(n)) IN
    IF r < n THEN [value |-> r, pos |-> pos + 1] ELSE randbelow(sd, pos + 1, n)

\* rng.choice(seq) of a generator that has output pos words: seq[_randbelow(len(seq))].
rng_choice(sd, pos, seq) ==
    LET i == randbelow(sd, pos, Len(seq)) IN [value |-> seq[i.value + 1], pos |-> i.pos]

\* rng.random() of a generator that has output pos words: two words a, b
\* give the float ((a >> 5) * 2^26 + (b >> 6)) / 2^53, held as hi = a >> 5
\* and lo = b >> 6.
rng_random(sd, pos) ==
    [value |-> [hi |-> rng_word(sd, pos + 1), lo |-> rng_word(sd, pos + 2) \div 2],
     pos |-> pos + 2]

\* f < t for two floats on the scale of random(), t having the quarter more
\* that FourThreshold has.
FloatBelow(f, t) == f.hi < t.hi \/ (f.hi = t.hi /\ f.lo <= t.lo)

\* ------------------------------------------------------------------- spawn

\* All cells in row-major order, as the comprehension enumerates them.
AllCells == [k \in 1..(SIZE * SIZE) |-> <<((k - 1) \div SIZE) + 1, ((k - 1) % SIZE) + 1>>]

\* Variant: every cell is offered to the spawn, occupied or not.
EmptiesAllCells(grid) == AllCells

Empties(grid) == SelectSeq(AllCells, LAMBDA rc : grid[rc[1]][rc[2]] = 0)

\* Variant: the two values are the other way round.
SpawnValueSwapped(f) == IF FloatBelow(f, FourThreshold) THEN 2 ELSE 4

\* The value written for a float draw f.
SpawnValue(f) == IF FloatBelow(f, FourThreshold) THEN 4 ELSE 2

\* Variant: the float is drawn first, ahead of the test for empty cells.
spawn_random_tile_float_first(bd, sd) ==
    LET empties == Empties(bd.grid)
        f       == rng_random(sd, bd.pos)
    IN  IF Len(empties) = 0 THEN [bd EXCEPT !.pos = f.pos]
        ELSE LET rc == rng_choice(sd, f.pos, empties)
             IN  [bd EXCEPT !.grid[rc.value[1]][rc.value[2]] = SpawnValue(f.value),
                            !.pos = rc.pos]

\* Variant: the draws are taken from the module-level generator (random.choice,
\* random.random), whose words are not those of the seed's stream.
spawn_random_tile_module_random(bd, sd) ==
    LET empties == Empties(bd.grid) IN
    IF Len(empties) = 0 THEN bd
    ELSE LET rc == rng_choice(random_Random(99), bd.pos, empties)
             f  == rng_random(random_Random(99), rc.pos)
         IN  [bd EXCEPT !.grid[rc.value[1]][rc.value[2]] = SpawnValue(f.value),
                        !.pos = f.pos]

spawn_random_tile(bd, sd) ==
    LET empties == Empties(bd.grid) IN
    IF Len(empties) = 0 THEN bd
    ELSE LET rc == rng_choice(sd, bd.pos, empties)
             f  == rng_random(sd, rc.pos)
         IN  [bd EXCEPT !.grid[rc.value[1]][rc.value[2]] = SpawnValue(f.value),
                        !.pos = f.pos]

\* -------------------------------------------------------------------- move

line(grid, direction, idx) ==
    IF direction = "a" THEN grid[idx]
    ELSE IF direction = "d" THEN Reverse(grid[idx])
    ELSE IF direction = "w" THEN [r \in 1..SIZE |-> grid[r][idx]]
    ELSE [r \in 1..SIZE |-> grid[SIZE + 1 - r][idx]]

\* Variant: a right move writes the line back without reversing it.
write_line_unreversed(grid, direction, idx, vals) ==
    IF direction = "a" \/ direction = "d" THEN [grid EXCEPT ![idx] = vals]
    ELSE IF direction = "w" THEN [r \in 1..SIZE |-> [grid[r] EXCEPT ![idx] = vals[r]]]
    ELSE [r \in 1..SIZE |-> [grid[r] EXCEPT ![idx] = vals[SIZE + 1 - r]]]

write_line(grid, direction, idx, vals) ==
    IF direction = "a" THEN [grid EXCEPT ![idx] = vals]
    ELSE IF direction = "d" THEN [grid EXCEPT ![idx] = Reverse(vals)]
    ELSE IF direction = "w" THEN [r \in 1..SIZE |-> [grid[r] EXCEPT ![idx] = vals[r]]]
    ELSE [r \in 1..SIZE |-> [grid[r] EXCEPT ![idx] = vals[SIZE + 1 - r]]]

Compact(arr) == SelectSeq(arr, LAMBDA x : x # 0)

\* Variant: the merged value is written with + for *.
MergedValuePlus(v) == v + 2

\* Variant: the merged value is written with ** for *.
MergedValueSquare(v) == v * v

\* The value appended for a merged pair of tiles of value v.
MergedValue(v) == v * 2

\* Variant: the score grows by the value of one of the two merged tiles.
ScoreGainHalf(val) == val \div 2

\* Variant: the gain of a merge is taken off the score.
ScoreGainNegated(val) == 0 - val

\* The score gained for a merged tile of value val.
ScoreGain(val) == val

\* Variant: the merged tile stays in the scan and may merge again.
RECURSIVE MergeLoopCascade(_, _, _, _)
MergeLoopCascade(compact, j, merged, gain) ==
    IF j > Len(compact) THEN [merged |-> merged, gain |-> gain]
    ELSE IF j + 1 <= Len(compact) /\ compact[j] = compact[j + 1]
         THEN MergeLoopCascade([compact EXCEPT ![j + 1] = MergedValue(compact[j])],
                               j + 1, merged, gain + ScoreGain(MergedValue(compact[j])))
         ELSE MergeLoopCascade(compact, j + 1, Append(merged, compact[j]), gain)

\* Variant: after a merge the scan steps over one tile of the pair only.
RECURSIVE MergeLoopStepOne(_, _, _, _)
MergeLoopStepOne(compact, j, merged, gain) ==
    IF j > Len(compact) THEN [merged |-> merged, gain |-> gain]
    ELSE IF j + 1 <= Len(compact) /\ compact[j] = compact[j + 1]
         THEN MergeLoopStepOne(compact, j + 1, Append(merged, MergedValue(compact[j])),
                               gain + ScoreGain(MergedValue(compact[j])))
         ELSE MergeLoopStepOne(compact, j + 1, Append(merged, compact[j]), gain)

\* The while loop over compact: j is the 1-based scan index.
RECURSIVE MergeLoop(_, _, _, _)
MergeLoop(compact, j, merged, gain) ==
    IF j > Len(compact) THEN [merged |-> merged, gain |-> gain]
    ELSE IF j + 1 <= Len(compact) /\ compact[j] = compact[j + 1]
         THEN MergeLoop(compact, j + 2, Append(merged, MergedValue(compact[j])),
                        gain + ScoreGain(MergedValue(compact[j])))
         ELSE MergeLoop(compact, j + 1, Append(merged, compact[j]), gain)

\* Variant: the zeros are put in front of the merged tiles.
PadLeading(merged) == Zeros(SIZE - Len(merged)) \o merged

Pad(merged) == merged \o Zeros(SIZE - Len(merged))

\* The for loop over the SIZE lines, writing each back before the next is read.
RECURSIVE ProcessLines(_, _, _, _)
ProcessLines(grid, direction, i, gain) ==
    IF i > SIZE THEN [grid |-> grid, score_gain |-> gain]
    ELSE LET m == MergeLoop(Compact(line(grid, direction, i)), 1, <<>>, 0)
         IN  ProcessLines(write_line(grid, direction, i, Pad(m.merged)),
                          direction, i + 1, gain + m.gain)

\* Slide and merge of a whole grid in a valid direction (lines 93-137).
Slide(grid, direction) == ProcessLines(grid, direction, 1, 0)

\* Variant: the direction is not validated (anything else slides down).
IsDirectionAny(direction) == TRUE

IsDirection(direction) == direction \in {"w", "a", "s", "d"}

\* Variant: the spawn step runs whether or not the grid changed.
move_always_spawn(bd, sd, input) ==
    LET direction == Lower(input) IN
    IF ~IsDirection(direction)
    THEN [board |-> bd, moved |-> FALSE, score_gain |-> 0, slid |-> bd.grid,
          spawns |-> <<>>]
    ELSE LET s  == Slide(bd.grid, direction)
             b2 == [bd EXCEPT !.grid = s.grid, !.score = bd.score + s.score_gain]
         IN  [board |-> spawn_random_tile(b2, sd), moved |-> s.grid # bd.grid,
              score_gain |-> s.score_gain, slid |-> s.grid,
              spawns |-> <<[pre |-> b2, post |-> spawn_random_tile(b2, sd)]>>]

\* Variant: a move counts as made only when it merged tiles.
move_moved_by_gain(bd, sd, input) ==
    LET direction == Lower(input) IN
    IF ~IsDirection(direction)
    THEN [board |-> bd, moved |-> FALSE, score_gain |-> 0, slid |-> bd.grid,
          spawns |-> <<>>]
    ELSE LET s     == Slide(bd.grid, direction)
             moved == s.score_gain > 0
             b1    == [bd EXCEPT !.grid = s.grid]
             b2    == [b1 EXCEPT !.score = bd.score + s.score_gain]
         IN  IF moved
             THEN [board |-> spawn_random_tile(b2, sd), moved |-> TRUE,
                   score_gain |-> s.score_gain, slid |-> s.grid,
                   spawns |-> <<[pre |-> b2, post |-> spawn_random_tile(b2, sd)]>>]
             ELSE [board |-> b1, moved |-> FALSE, score_gain |-> s.score_gain,
                   slid |-> s.grid, spawns |-> <<>>]

\* Board.move: the board after the call, the MoveResult, and the grid as it
\* stood before the spawn step.
move(bd, sd, input) ==
    LET direction == Lower(input) IN
    IF ~IsDirection(direction)
    THEN [board |-> bd, moved |-> FALSE, score_gain |-> 0, slid |-> bd.grid,
          spawns |-> <<>>]
    ELSE LET s     == Slide(bd.grid, direction)
             moved == s.grid # bd.grid
             b1    == [bd EXCEPT !.grid = s.grid]
             b2    == [b1 EXCEPT !.score = bd.score + s.score_gain]
         IN  IF moved
             THEN [board |-> spawn_random_tile(b2, sd), moved |-> TRUE,
                   score_gain |-> s.score_gain, slid |-> s.grid,
                   spawns |-> <<[pre |-> b2, post |-> spawn_random_tile(b2, sd)]>>]
             ELSE [board |-> b1, moved |-> FALSE, score_gain |-> s.score_gain,
                   slid |-> s.grid, spawns |-> <<>>]

\* --------------------------------------------------------------- has_moves

\* Variant: only the right neighbour is compared.
has_moves_right_only(grid) ==
    IF \E r \in 1..SIZE : \E c \in 1..SIZE : grid[r][c] = 0 THEN TRUE
    ELSE \E r \in 1..SIZE : \E c \in 1..SIZE :
            c + 1 <= SIZE /\ grid[r][c + 1] = grid[r][c]

\* Variant: only the test for an empty cell is made.
has_moves_empty_only(grid) ==
    \E r \in 1..SIZE : \E c \in 1..SIZE : grid[r][c] = 0

has_moves(grid) ==
    IF \E r \in 1..SIZE : \E c \in 1..SIZE : grid[r][c] = 0 THEN TRUE
    ELSE \E r \in 1..SIZE : \E c \in 1..SIZE :
            \/ r + 1 <= SIZE /\ grid[r + 1][c] = grid[r][c]
            \/ c + 1 <= SIZE /\ grid[r][c + 1] = grid[r][c]

\* ----------------------------------------------------------------- restart

\* Variant: the score is not reset.
restart_keep_score(bd, sd) ==
    LET b0 == [bd EXCEPT !.grid = EmptyGrid]
        b1 == spawn_random_tile(b0, sd)
        b2 == spawn_random_tile(b1, sd)
    IN  <<b0, b1, b2>>

\* Variant: the generator is put back to the start of the seed's stream.
restart_reseed(bd, sd) ==
    LET b0 == [bd EXCEPT !.grid = EmptyGrid, !.score = 0, !.pos = 0]
        b1 == spawn_random_tile(b0, sd)
        b2 == spawn_random_tile(b1, sd)
    IN  <<b0, b1, b2>>

\* Board.restart (and the body of __init__): the boards after the reset,
\* after the first spawn and after the second.
restart(bd, sd) ==
    LET b0 == [bd EXCEPT !.grid = EmptyGrid, !.score = 0]
        b1 == spawn_random_tile(b0, sd)
        b2 == spawn_random_tile(b1, sd)
    IN  <<b0, b1, b2>>

\* Board(rng) with a fresh generator: position 0 of the seed's stream.
NewBoard(sd) == restart([grid |-> EmptyGrid, score |-> 0, pos |-> 0], sd)


\* ------------------------------------------------------------ test harness

\* The generator board_from_rows builds its boards with.
TestSeeds == {random_Random(0)}

\* The grids the test boards are given: rows of RowSet, the lower half empty
\* or a copy of the upper half.  A board always holds a tile (the constructor
\* and restart spawn two, and no call removes the last one), so the grid
\* with no tile is not among them.
TestGrids ==
    {g \in [1..SIZE -> RowSet] :
        /\ g # EmptyGrid
        /\ \/ g[3] = Zeros(SIZE) /\ g[4] = Zeros(SIZE)
           \/ g[3] = g[1] /\ g[4] = g[2]}

\* board_from_rows(rows): Board(random.Random(0)), then grid and score are
\* overwritten.
board_from_rows(sd, rows) == [NewBoard(sd)[3] EXCEPT !.grid = rows, !.score = 0]

\* The boards of the tests, as generator and rows: those of board_from_rows,
\* and the board test_no_spawn_on_illegal_move builds the same way on
\* random.Random(1).
TestBoards ==
    {[sd |-> sd, rows |-> rows] : sd \in TestSeeds, rows \in TestGrids}
        \cup {[sd |-> random_Random(1),
               rows |-> << <<2, 4, 8, 16>>, Zeros(SIZE), Zeros(SIZE), Zeros(SIZE) >>]}

\* ---------------------------------------------------------------- observer

Max2(a, b) == IF a >= b THEN a ELSE b

Cells == (1..SIZE) \X (1..SIZE)

Count(grid, v) == Cardinality({rc \in Cells : grid[rc[1]][rc[2]] = v})

RECURSIVE SeqMax(_)
SeqMax(s) == IF s = <<>> THEN 0 ELSE Max2(Head(s), SeqMax(Tail(s)))

MaxTile(grid) == SeqMax([r \in 1..SIZE |-> SeqMax(grid[r])])

\* The merge events that turn the tiles of grid `before` into those of grid
\* `after`, read off the two grids: a merge of value v removes two tiles v
\* and adds one tile 2v.  With m(v) the number of merges of tiles v,
\* Count(after, v) = Count(before, v) - 2 m(v) + m(v/2).  The result is the
\* sum of the post-merge values 2v over all events, from value v upward,
\* `below` being m(v/2).
RECURSIVE MergeEventSum(_, _, _, _)
MergeEventSum(before, after, v, below) ==
    IF v > Max2(MaxTile(before), MaxTile(after)) THEN 0
    ELSE LET m == (Count(before, v) + below - Count(after, v)) \div 2
         IN  (2 * v) * m + MergeEventSum(before, after, 2 * v, m)

ObservedMerges(before, after) == MergeEventSum(before, after, 2, 0)

\* ------------------------------------------------------------------ actions

NoScript == [calls |-> <<>>, replayed |-> 0]

NoCall ==
    [op |-> "none", dir |-> "", before |-> [grid |-> EmptyGrid, score |-> 0, pos |-> 0],
     slid |-> EmptyGrid, moved |-> FALSE, gain |-> 0, ret |-> FALSE, spawns |-> <<>>,
     keys |-> <<>>]

SpawnSteps(bs) == <<[pre |-> bs[1], post |-> bs[2]], [pre |-> bs[2], post |-> bs[3]]>>

\* play: rng = random.Random(seed); board = Board(rng), in two runs with
\* one seed.
Construct(sd) ==
    LET bs == NewBoard(sd)
    IN  /\ seed = sd
        /\ board = bs[3]
        /\ twin = NewBoard(sd)[3]
        /\ last = [NoCall EXCEPT !.op = "init", !.before = bs[1], !.spawns = SpawnSteps(bs)]
        /\ merges = 0
        /\ script = NoScript

Init == \E sd \in Seeds : Construct(sd)

\* test_spawn_probability_shape_only: Board(random.Random(99)).
InitShape == Construct(random_Random(99))

\* The tests' boards: board_from_rows(rows).
InitRows ==
    \E tb \in TestBoards :
        /\ seed = tb.sd
        /\ board = board_from_rows(tb.sd, tb.rows)
        /\ twin = board_from_rows(tb.sd, tb.rows)
        /\ last = [NoCall EXCEPT !.op = "from_rows", !.before = NewBoard(tb.sd)[3]]
        /\ merges = 0
        /\ script = NoScript

\* A call is made in a run while the words it takes are within MaxWords and
\* among the known words of the stream.
WithinWords(pos) == pos <= MaxWords /\ pos <= Len(seed)

\* board.move(input), the call made for the characters `keys` when it is made
\* by the turn loop.
MoveStep(input, keys) ==
    LET m == move(board, seed, input)
    IN  /\ WithinWords(m.board.pos)
        /\ board' = m.board
        /\ last' = [op |-> "move", dir |-> Lower(input), before |-> board,
                    slid |-> m.slid, moved |-> m.moved, gain |-> m.score_gain,
                    ret |-> FALSE, spawns |-> m.spawns, keys |-> keys]
        /\ merges' = merges + ObservedMerges(board.grid, m.slid)

MoveCall(input, keys) == MoveStep(input, keys) /\ UNCHANGED <<seed, twin, script>>

Move(input) == MoveCall(input, <<>>)

\* board.restart().
RestartStep(keys) ==
    LET bs == restart(board, seed)
    IN  /\ WithinWords(bs[3].pos)
        /\ board' = bs[3]
        /\ last' = [NoCall EXCEPT !.op = "restart", !.before = board,
                                  !.spawns = SpawnSteps(bs), !.keys = keys]
        /\ merges' = 0

RestartCall(keys) == RestartStep(keys) /\ UNCHANGED <<seed, twin, script>>

Restart == RestartCall(<<>>)

HasMoves ==
    /\ last' = [NoCall EXCEPT !.op = "has_moves", !.before = board,
                              !.ret = has_moves(board.grid)]
    /\ UNCHANGED <<seed, board, twin, merges, script>>

Next ==
    \/ \E input \in Inputs : Move(input)
    \/ Restart
    \/ HasMoves

\* The game from construction.
Spec == Init /\ [][Next]_vars

\* Boards from construction or from the test harness, then the same calls.
SpecBoards == (Init \/ InitRows \/ InitShape) /\ [][Next]_vars

\* The spawn step on its own: board._spawn_random_tile() on a test board.
SpawnTile ==
    LET b == spawn_random_tile(board, seed)
    IN  /\ WithinWords(b.pos)
        /\ board' = b
        /\ last' = [NoCall EXCEPT !.op = "spawn", !.before = board,
                                  !.spawns = <<[pre |-> board, post |-> b]>>]
        /\ UNCHANGED <<seed, twin, merges, script>>

\* Words a generator may be about to output, at some point of its period,
\* when the spawn step is run: a word for the choice (every value of its top
\* five bits), and words for a float on either side of 0.10 (the greatest
\* float below it, and the next one).
SpawnWindows ==
    {<<c * (2 ^ (WordBits - 5)), FourThreshold.hi, 2 * lo, 2 * lo>> :
        c \in 0..31, lo \in {FourThreshold.lo, FourThreshold.lo + 1}}

\* The spawn step is run on a test board as board_from_rows builds it, or on
\* a board with those rows and a generator about to output a window.
InitSpawn ==
    \E rows \in TestGrids :
        \/ \E sd \in TestSeeds :
            /\ seed = sd
            /\ board = board_from_rows(sd, rows)
            /\ twin = board_from_rows(sd, rows)
            /\ last = [NoCall EXCEPT !.op = "from_rows", !.before = NewBoard(sd)[3]]
            /\ merges = 0
            /\ script = NoScript
        \/ \E sd \in SpawnWindows :
            /\ seed = sd
            /\ board = [grid |-> rows, score |-> 0, pos |-> 0]
            /\ twin = board
            /\ last = [NoCall EXCEPT !.op = "window"]
            /\ merges = 0
            /\ script = NoScript

NextSpawn == SpawnTile

\* Test boards, empty cells or none, on which the spawn step is run alone.
SpecSpawn == InitSpawn /\ [][NextSpawn]_vars

\* ---------------------------------------------------------------- turn loop

\* The characters of standard input: one-character strings, ESC for the
\* escape character and INTR for a read that raises KeyboardInterrupt.
ESC == "ESC"

INTR == "INTR"

\* Variant: the arrow codes are given the four commands in the order w a s d.
ARROWS_in_wasd_order == [A |-> "w", B |-> "a", C |-> "s", D |-> "d"]

ARROWS == [A |-> "w", B |-> "s", C |-> "d", D |-> "a"]

\* ARROWS.get(code, default)
ARROWS_get(code, default) == IF code \in DOMAIN ARROWS THEN ARROWS[code] ELSE default

\* sys.stdin.read(1) for the i-th read of a call: the empty string at the
\* end of the input.
stdin_read(chars, i) == IF i <= Len(chars) THEN chars[i] ELSE ""

\* What read_command gives when a KeyboardInterrupt leaves it: no command,
\* the exception goes on through play.
KeyboardInterrupt == "KeyboardInterrupt"

\* read_command() with `chars` waiting on standard input.  Only the first
\* read is inside the try.
read_command(chars) ==
    LET ch == stdin_read(chars, 1) IN
    IF ch = INTR THEN "q"
    ELSE IF ch = ESC
         THEN LET nxt == stdin_read(chars, 2) IN
              IF nxt = INTR THEN KeyboardInterrupt
              ELSE IF nxt = "["
                   THEN LET code == stdin_read(chars, 3) IN
                        IF code = INTR THEN KeyboardInterrupt ELSE ARROWS_get(code, "")
                   ELSE ""
         ELSE Lower(ch)

\* What is typed for one turn.
KeySeqs ==
    {<<"w">>, <<"a">>, <<"s">>, <<"d">>, <<"W">>, <<"r">>, <<"R">>, <<"q">>, <<"Q">>,
     <<"x">>, <<>>,
     <<ESC, "[", "A">>, <<ESC, "[", "B">>, <<ESC, "[", "C">>, <<ESC, "[", "D">>,
     <<ESC, "[", "x">>, <<ESC, "x">>, <<ESC>>,
     <<INTR>>, <<ESC, INTR>>, <<ESC, "[", INTR>>}

\* play has returned or been left by an exception.
Ended == last.op \in {"quit", "raised"}

\* One iteration of the loop of play, by what it does with the command read.
PlayMove(keys) ==
    /\ ~Ended
    /\ has_moves(board.grid)
    /\ read_command(keys) \in {"w", "a", "s", "d"}
    /\ MoveCall(read_command(keys), keys)

PlayRestart(keys) ==
    /\ ~Ended
    /\ read_command(keys) = "r"
    /\ RestartCall(keys)

PlayQuit(keys) ==
    /\ ~Ended
    /\ read_command(keys) = "q"
    /\ last' = [NoCall EXCEPT !.op = "quit", !.before = board, !.keys = keys]
    /\ UNCHANGED <<seed, board, twin, merges, script>>

PlayIgnore(keys) ==
    /\ ~Ended
    /\ read_command(keys) \notin {"r", "q", KeyboardInterrupt}
    /\ has_moves(board.grid) => read_command(keys) \notin {"w", "a", "s", "d"}
    /\ last' = [NoCall EXCEPT !.op = "ignored", !.before = board, !.keys = keys]
    /\ UNCHANGED <<seed, board, twin, merges, script>>

\* The KeyboardInterrupt of a later read leaves read_command and play.
PlayRaise(keys) ==
    /\ ~Ended
    /\ read_command(keys) = KeyboardInterrupt
    /\ last' = [NoCall EXCEPT !.op = "raised", !.before = board, !.keys = keys]
    /\ UNCHANGED <<seed, board, twin, merges, script>>

\* test_game_over_detection: board_from_rows of a full board with no equal
\* neighbours, handed to the turn loop.
InitOver ==
    \E sd \in TestSeeds :
        /\ seed = sd
        /\ board = board_from_rows(sd, << <<2, 4, 2, 4>>, <<4, 2, 4, 2>>,
                                         <<2, 4, 2, 4>>, <<4, 2, 4, 2>> >>)
        /\ twin = board
        /\ last = [NoCall EXCEPT !.op = "from_rows", !.before = NewBoard(sd)[3]]
        /\ merges = 0
        /\ script = NoScript

NextPlay ==
    \E keys \in KeySeqs :
        \/ PlayMove(keys)
        \/ PlayRestart(keys)
        \/ PlayQuit(keys)
        \/ PlayIgnore(keys)
        \/ PlayRaise(keys)

\* The game as played from the keyboard.
SpecPlay == (Init \/ InitOver) /\ [][NextPlay]_vars

\* ---------------------------------------------------------------- two runs

\* Directions handed to move in a run that is repeated.
RunInputs == {"w", "a", "s", "d", "x"}

\* A call of the first run, made on `board` and added to the script.
RunMove(input) ==
    /\ Len(script.calls) < MaxCalls
    /\ MoveStep(input, <<>>)
    /\ script' = [script EXCEPT !.calls = Append(@, [op |-> "move", input |-> input])]
    /\ UNCHANGED <<seed, twin>>

RunRestart ==
    /\ Len(script.calls) < MaxCalls
    /\ RestartStep(<<>>)
    /\ script' = [script EXCEPT !.calls = Append(@, [op |-> "restart", input |-> ""])]
    /\ UNCHANGED <<seed, twin>>

\* The second run makes the next call of the script on its own instance,
\* which draws from its own generator.
RepeatMove ==
    /\ script.replayed < Len(script.calls)
    /\ script.calls[script.replayed + 1].op = "move"
    /\ twin' = move(twin, seed, script.calls[script.replayed + 1].input).board
    /\ script' = [script EXCEPT !.replayed = @ + 1]
    /\ UNCHANGED <<seed, board, last, merges>>

RepeatRestart ==
    /\ script.replayed < Len(script.calls)
    /\ script.calls[script.replayed + 1].op = "restart"
    /\ twin' = restart(twin, seed)[3]
    /\ script' = [script EXCEPT !.replayed = @ + 1]
    /\ UNCHANGED <<seed, board, last, merges>>

NextRuns ==
    \/ \E input \in RunInputs : RunMove(input)
    \/ RunRestart
    \/ RepeatMove
    \/ RepeatRestart

\* Two runs with one seed: the second is given the calls of the first.
SpecRuns == Init /\ [][NextRuns]_vars

\* ------------------------------------------------------------------ claims

\* The cell of line i that is k-th in slide order for a direction: left reads
\* row i left to right, right reads it right to left, up reads column i top
\* to bottom, down reads it bottom to top.
CellAt(direction, i, k) ==
    CASE direction = "a" -> <<i, k>>
      [] direction = "d" -> <<i, SIZE + 1 - k>>
      [] direction = "w" -> <<k, i>>
      [] direction = "s" -> <<SIZE + 1 - k, i>>

LineOf(grid, direction, i) ==
    [k \in 1..SIZE |-> grid[CellAt(direction, i, k)[1]][CellAt(direction, i, k)[2]]]

RECURSIVE TilesOf(_)
TilesOf(s) ==
    IF s = <<>> THEN <<>>
    ELSE IF Head(s) = 0 THEN TilesOf(Tail(s)) ELSE <<Head(s)>> \o TilesOf(Tail(s))

NonZeroCells(grid) == {rc \in Cells : grid[rc[1]][rc[2]] # 0}

\* The last call was move with one of the four directions.
MovedInDirection == last.op = "move" /\ last.dir \in {"w", "a", "s", "d"}

\* The grid a slide and merge of the pre-call grid gives in the call's direction.
SlidOfLast == Slide(last.before.grid, last.dir).grid

\* C1: a move in one of the four directions whose slide and merge changes no
\* cell returns moved = false, leaves grid and score as they were, runs no
\* spawn step and takes no draw.
C1_NoChangeNoSpawn ==
    (MovedInDirection /\ SlidOfLast = last.before.grid)
        => /\ ~last.moved
           /\ board.grid = last.before.grid
           /\ board.score = last.before.score
           /\ board.pos = last.before.pos
           /\ last.spawns = <<>>

\* C1 witness: a left move on a board whose first row is the packed row
\* 2 4 8 16 (the other rows empty) has been made and changed nothing.
C1_Witness ==
    /\ MovedInDirection /\ last.dir = "a"
    /\ last.before.grid = <<(<<2, 4, 8, 16>>), Zeros(SIZE), Zeros(SIZE), Zeros(SIZE)>>
    /\ SlidOfLast = last.before.grid
    /\ board.grid = last.before.grid

\* The sequences of block sizes (1 = a tile carried over, 2 = a merged pair)
\* that cut a line of n tiles into consecutive blocks.
RECURSIVE SumSeq(_)
SumSeq(s) == IF s = <<>> THEN 0 ELSE Head(s) + SumSeq(Tail(s))

Blockings(n) ==
    UNION {{b \in [1..m -> {1, 2}] : SumSeq(b) = n} : m \in 0..n}

BlockStart(b, k) == 1 + SumSeq(SubSeq(b, 1, k - 1))

\* out is tiles with its pairs merged once, greedily from the leading side:
\* each tile of out is one tile of `tiles` carried over (which then does not
\* equal the tile after it) or the double of two equal neighbours.
MergedOnce(tiles, out) ==
    \E b \in Blockings(Len(tiles)) :
        /\ Len(out) = Len(b)
        /\ \A k \in 1..Len(b) :
            LET s == BlockStart(b, k) IN
            IF b[k] = 2
            THEN tiles[s] = tiles[s + 1] /\ out[k] = 2 * tiles[s]
            ELSE out[k] = tiles[s] /\ (s < Len(tiles) => tiles[s] # tiles[s + 1])

\* C2: after a move in one of the four directions, every line of the grid
\* (before the spawn, read in slide order) is the line's tiles with equal
\* neighbours merged once, greedily from the leading side, then zeros.
C2_SingleMerge ==
    MovedInDirection =>
        \A i \in 1..SIZE :
            LET tiles == TilesOf(LineOf(last.before.grid, last.dir, i))
                res   == LineOf(last.slid, last.dir, i)
            IN  \E n \in 0..SIZE :
                    /\ MergedOnce(tiles, SubSeq(res, 1, n))
                    /\ \A k \in (n + 1)..SIZE : res[k] = 0

\* C2 witness: the row 2 2 2 0 has been moved left and reads 4 2 0 0.
C2_Witness ==
    /\ MovedInDirection /\ last.dir = "a"
    /\ last.before.grid[1] = <<2, 2, 2, 0>>
    /\ last.slid[1] = <<4, 2, 0, 0>>

Adjacent(p, q) ==
    \/ p[1] = q[1] /\ (p[2] = q[2] + 1 \/ q[2] = p[2] + 1)
    \/ p[2] = q[2] /\ (p[1] = q[1] + 1 \/ q[1] = p[1] + 1)

\* Some cell is empty, or two adjacent cells hold equal non-zero values.
CanMove(grid) ==
    \/ \E p \in Cells : grid[p[1]][p[2]] = 0
    \/ \E p \in Cells : \E q \in Cells :
        /\ Adjacent(p, q)
        /\ grid[p[1]][p[2]] # 0
        /\ grid[p[1]][p[2]] = grid[q[1]][q[2]]

Checkerboard == <<(<<2, 4, 2, 4>>), <<4, 2, 4, 2>>, <<2, 4, 2, 4>>, <<4, 2, 4, 2>> >>

\* C3: has_moves is true exactly when a cell is empty or two horizontally or
\* vertically adjacent cells hold equal non-zero values, on the current grid
\* and as returned by the last has_moves call.
C3_HasMovesIff ==
    /\ has_moves(board.grid) = CanMove(board.grid)
    /\ last.op = "has_moves" => last.ret = CanMove(board.grid)

\* C3 witness: has_moves has returned false on the checkerboard board.
C3_Witness ==
    last.op = "has_moves" /\ ~last.ret /\ board.grid = Checkerboard

\* post is pre with one empty cell set to 2 or 4 and nothing else changed.
OneTileAdded(pre, post) ==
    \E p \in Cells :
        /\ pre[p[1]][p[2]] = 0
        /\ post[p[1]][p[2]] \in {2, 4}
        /\ \A q \in Cells \ {p} : post[q[1]][q[2]] = pre[q[1]][q[2]]

\* The call just made ran the spawn step: a successful move, a restart or
\* the constructor.
Spawned == (last.op = "move" /\ last.moved) \/ last.op \in {"restart", "init"}

\* The grid the first spawn step of the last call started from.
GridBeforeSpawn == IF last.op = "move" THEN SlidOfLast ELSE EmptyGrid

\* C4: the spawn steps of a successful move, a restart or the constructor
\* start from the slid grid (the empty grid for a restart), each adds at
\* most one tile, of value 2 or 4 in a cell that was empty, changes no other
\* cell, and the last one leaves the board's grid.
C4_SpawnLegal ==
    Spawned =>
        /\ Len(last.spawns) = (IF last.op = "move" THEN 1 ELSE 2)
        /\ last.spawns[1].pre.grid = GridBeforeSpawn
        /\ last.spawns[Len(last.spawns)].post.grid = board.grid
        /\ \A k \in 1..Len(last.spawns) :
            /\ k > 1 => last.spawns[k].pre.grid = last.spawns[k - 1].post.grid
            /\ \/ OneTileAdded(last.spawns[k].pre.grid, last.spawns[k].post.grid)
               \/ /\ NonZeroCells(last.spawns[k].pre.grid) = Cells
                  /\ last.spawns[k].post.grid = last.spawns[k].pre.grid

\* C4 witness: a successful move has spawned a 4 on a grid that held tiles.
C4_Witness ==
    /\ last.op = "move" /\ last.moved
    /\ Cardinality(NonZeroCells(SlidOfLast)) >= 2
    /\ \E p \in Cells : SlidOfLast[p[1]][p[2]] = 0 /\ board.grid[p[1]][p[2]] = 4

\* C5: the score equals the sum of the post-merge values of the merge events
\* of all moves since construction or the last restart.
C5_ScoreIsMergeSum == board.score = merges

\* C5 witness: a move has merged tiles on a board that had already scored.
C5_Witness ==
    /\ last.op = "move" /\ last.gain > 0
    /\ last.before.score > 0
    /\ board.score = last.before.score + last.gain

MirrorH(grid) == [r \in 1..SIZE |-> [c \in 1..SIZE |-> grid[r][SIZE + 1 - c]]]

FlipV(grid) == [r \in 1..SIZE |-> grid[SIZE + 1 - r]]

Transpose(grid) == [r \in 1..SIZE |-> [c \in 1..SIZE |-> grid[c][r]]]

\* Sliding g in direction d gives the grid `image`, the gain and the moved
\* flag that sliding h in direction e gives, `image` being the mirror image
\* of that result.
SameSlide(g, d, h, e, image) ==
    /\ Slide(g, d).grid = image
    /\ Slide(g, d).score_gain = Slide(h, e).score_gain
    /\ (Slide(g, d).grid # g) = (Slide(h, e).grid # h)

Symmetric(g) ==
    /\ SameSlide(g, "d", MirrorH(g), "a", MirrorH(Slide(MirrorH(g), "a").grid))
    /\ SameSlide(g, "s", FlipV(g), "w", FlipV(Slide(FlipV(g), "w").grid))
    /\ SameSlide(g, "w", Transpose(g), "a", Transpose(Slide(Transpose(g), "a").grid))

\* C7: on the current grid a right move is the horizontal mirror of a left
\* move on the mirrored grid, a down move the vertical flip of an up move on
\* the flipped grid, an up move the transpose of a left move on the
\* transposed grid (grid before the spawn, moved flag and score gain); and a
\* right move just made returned that.
C7_Orientation ==
    /\ Symmetric(board.grid)
    /\ (last.op = "move" /\ last.dir = "d") =>
        /\ last.slid = MirrorH(Slide(MirrorH(last.before.grid), "a").grid)
        /\ last.gain = Slide(MirrorH(last.before.grid), "a").score_gain
        /\ last.moved = (Slide(MirrorH(last.before.grid), "a").grid # MirrorH(last.before.grid))

\* C7 witness: a right move has merged the row 2 2 2 0 into 0 0 2 4.
C7_Witness ==
    /\ last.op = "move" /\ last.dir = "d" /\ last.moved
    /\ last.before.grid[1] = <<2, 2, 2, 0>>
    /\ last.slid[1] = <<0, 0, 2, 4>>

\* C8: move with an input that is none of the four directions returns
\* moved = false and a gain of 0, and leaves grid, score and stream position
\* as they were, with no spawn step.
C8_InvalidDirectionNoOp ==
    (last.op = "move" /\ last.dir \notin {"w", "a", "s", "d"})
        => /\ ~last.moved
           /\ last.gain = 0
           /\ board = last.before
           /\ last.spawns = <<>>

\* C8 witness: move("x") has been called on a board that a down move would
\* have changed.
C8_Witness ==
    /\ last.op = "move" /\ last.dir = "x"
    /\ Slide(board.grid, "s").grid # board.grid
    /\ board = last.before

RECURSIVE IsPowerOfTwo(_)
IsPowerOfTwo(v) == v = 2 \/ (v > 2 /\ v % 2 = 0 /\ IsPowerOfTwo(v \div 2))

\* C9: the grid is SIZE x SIZE and every non-zero cell is a power of two
\* that is at least 2.
C9_PowersOfTwo ==
    /\ DOMAIN board.grid = 1..SIZE
    /\ \A r \in 1..SIZE : DOMAIN board.grid[r] = 1..SIZE
    /\ \A p \in Cells : board.grid[p[1]][p[2]] = 0 \/ IsPowerOfTwo(board.grid[p[1]][p[2]])

\* C9 witness: a move has merged two 4s into an 8 and a tile has been spawned.
C9_Witness ==
    /\ last.op = "move" /\ last.moved
    /\ \E p \in Cells : board.grid[p[1]][p[2]] = 8
    /\ MaxTile(last.before.grid) = 4

\* C10: right after construction and right after a restart the score is 0
\* and the grid holds exactly two tiles, each a 2 or a 4.
C10_FreshBoard ==
    last.op \in {"init", "restart"} =>
        /\ board.score = 0
        /\ Cardinality(NonZeroCells(board.grid)) = 2
        /\ \A p \in NonZeroCells(board.grid) : board.grid[p[1]][p[2]] \in {2, 4}

\* C10 witness: a board with no move left (full, no equal neighbours) has
\* been restarted.
C10_Witness ==
    /\ last.op = "restart"
    /\ NonZeroCells(last.before.grid) = Cells
    /\ ~CanMove(last.before.grid)
    /\ Cardinality(NonZeroCells(board.grid)) = 2

NumEmpty(grid) == Cardinality(Cells \ NonZeroCells(grid))

RowMajorIndex(p) == (p[1] - 1) * SIZE + p[2]

\* The n-th empty cell of a grid, cells counted row by row.
NthEmpty(grid, n) ==
    CHOOSE p \in Cells :
        /\ grid[p[1]][p[2]] = 0
        /\ Cardinality({q \in Cells : /\ grid[q[1]][q[2]] = 0
                                      /\ RowMajorIndex(q) < RowMajorIndex(p)}) = n - 1

\* The spawn of one tile on a grid by a generator of the seed in use that
\* has output pos words: one choice among the empty cells, then one float;
\* the grid with the tile and the position after the two draws.
TileDrawn(grid, pos) ==
    LET n == Cardinality(Cells \ NonZeroCells(grid))
        c == rng_choice(seed, pos, [i \in 1..n |-> i])
        f == rng_random(seed, c.pos)
        p == NthEmpty(grid, c.value)
    IN  [grid |-> [grid EXCEPT ![p[1]][p[2]] =
                       IF FloatBelow(f.value, FourThreshold) THEN 4 ELSE 2],
         pos |-> f.pos]

\* Two grids hold the same value in every cell.
SameCells(g, h) == \A rc \in Cells : g[rc[1]][rc[2]] = h[rc[1]][rc[2]]

\* Two board states agree in grid, score and generator position.
SameState(a, b) == SameCells(a.grid, b.grid) /\ a.score = b.score /\ a.pos = b.pos

\* A line's tiles with equal neighbours merged once, from the leading side.
RECURSIVE MergePairs(_)
MergePairs(t) ==
    IF Len(t) < 2 THEN t
    ELSE IF t[1] = t[2] THEN <<2 * t[1]>> \o MergePairs(SubSeq(t, 3, Len(t)))
    ELSE <<t[1]>> \o MergePairs(Tail(t))

\* A sequence of tiles followed by zeros, SIZE cells in all.
ZeroFilled(tiles) == tiles \o Zeros(SIZE - Len(tiles))

\* Line i of a grid in slide order after the slide: its tiles with their
\* pairs merged, then zeros.
SlidLine(grid, direction, i) ==
    ZeroFilled(MergePairs(TilesOf(LineOf(grid, direction, i))))

\* The grid slid toward an edge: cell (r, c) is taken from the slid line it
\* lies on, at its place in slide order; any input other than the four
\* directions leaves the grid.
ReplaySlide(grid, input) ==
    IF input \notin {"w", "a", "s", "d"} THEN grid
    ELSE [r \in 1..SIZE |-> [c \in 1..SIZE |->
            CASE input = "a" -> SlidLine(grid, "a", r)[c]
              [] input = "d" -> SlidLine(grid, "d", r)[SIZE + 1 - c]
              [] input = "w" -> SlidLine(grid, "w", c)[r]
              [] input = "s" -> SlidLine(grid, "s", c)[SIZE + 1 - r]]]

\* Two tiles drawn on the empty grid by a generator that has output pos words.
ReplayFresh(pos) ==
    LET t1 == TileDrawn(EmptyGrid, pos)
        t2 == TileDrawn(t1.grid, t1.pos)
    IN  [grid |-> t2.grid, score |-> 0, pos |-> t2.pos]

\* The state a move leaves that slides the grid of state st to `slid`: a
\* move that changes the grid adds the values of its merges to the score and
\* draws one tile from the words that follow; any other move leaves the state.
ReplayMove(st, slid) ==
    IF SameCells(slid, st.grid) THEN st
    ELSE [grid  |-> TileDrawn(slid, st.pos).grid,
          score |-> st.score + ObservedMerges(st.grid, slid),
          pos   |-> TileDrawn(slid, st.pos).pos]

\* The state a call leaves, from the state before it and the words of the
\* seed's stream that follow; a restart draws two tiles on the empty grid.
ReplayCall(st, call) ==
    IF call.op = "restart" THEN ReplayFresh(st.pos)
    ELSE CHOOSE after \in {ReplayMove(st, slid) :
                               slid \in {ReplaySlide(st.grid, call.input)}} : TRUE

\* The state after construction and a sequence of calls, as a function of
\* the seed's stream and the calls alone: the state the last call leaves
\* from the state st after the calls ahead of it.
RECURSIVE Replay(_)
Replay(calls) ==
    IF calls = <<>> THEN ReplayFresh(0)
    ELSE CHOOSE after \in {ReplayCall(st, calls[Len(calls)]) :
                               st \in {Replay(SubSeq(calls, 1, Len(calls) - 1))}} : TRUE

\* C6: two instances built from generators with identical seeds and given
\* the same sequence of move and restart calls have identical grids and
\* scores after every step, steps after a restart included.  Each run is in
\* the state that the seed's stream and the calls made on it so far
\* determine (grid, score and generator position), whatever the other run
\* has done: the second run, once it has been given k calls, is where the
\* first was after its k-th call, and when both have had the same calls
\* their grids and scores are equal.
C6_Deterministic ==
    \A first \in {Replay(script.calls)} :
    \A second \in {Replay(SubSeq(script.calls, 1, script.replayed))} :
        /\ SameState(board, first)
        /\ SameState(twin, second)
        /\ script.replayed = Len(script.calls) =>
                SameCells(board.grid, twin.grid) /\ board.score = twin.score

\* C6 witness: the second run has caught up with a first run that made a
\* move that drew a tile, a restart and then a move that changed the grid,
\* and the two instances hold the same tiles and score.
C6_Witness ==
    /\ Len(script.calls) = 3
    /\ script.replayed = 3
    /\ script.calls[1].op = "move"
    /\ script.calls[2].op = "restart"
    /\ script.calls[3].op = "move"
    /\ last.moved
    /\ SameCells(board.grid, twin.grid)
    /\ board.score = twin.score
    /\ Replay(SubSeq(script.calls, 1, 1)).pos > Replay(<<>>).pos

\* C11: no call moves the stream position back; a restart starts drawing
\* at the position the stream had before the call, and its two tiles are the
\* ones given by the draws that follow that position.
C11_RestartContinuesStream ==
    /\ last.op \in {"move", "restart", "has_moves"} => board.pos >= last.before.pos
    /\ last.op = "restart" =>
        LET p  == last.before.pos
            t1 == TileDrawn(EmptyGrid, p)
            t2 == TileDrawn(t1.grid, t1.pos)
        IN  /\ last.spawns[1].pre.pos = p
            /\ board.pos = t2.pos
            /\ board.grid = t2.grid

\* C11 witness: a restart after a successful move has put tiles on the board
\* that differ from the ones the first draws of the seed give.
C11_Witness ==
    /\ last.op = "restart"
    /\ last.before.pos > NewBoard(seed)[3].pos
    /\ board.pos > last.before.pos
    /\ board.grid # TileDrawn(TileDrawn(EmptyGrid, 0).grid, TileDrawn(EmptyGrid, 0).pos).grid

\* C12: the score is never negative; every call other than restart leaves
\* it at least as high as it was (move with a valid direction, effective or
\* not, move with an invalid input, has_moves), and restart sets it to 0.
C12_ScoreMonotone ==
    /\ [](board.score >= 0)
    /\ [][/\ last'.op = "restart" => board'.score = 0
          /\ last'.op # "restart" => board'.score >= board.score]_vars

\* C12 witness: a restart has put a score of 4 or more back to 0.
C12_Witness ==
    /\ last.op = "restart"
    /\ last.before.score >= 4
    /\ board.score = 0

\* Some cell of grid g differs from the same cell of grid h.
SomeCellDiffers(g, h) == \E p \in Cells : g[p[1]][p[2]] # h[p[1]][p[2]]

\* C15: for a move in one of the four directions, moved is true exactly when
\* some cell of the grid after slide and merge (before the spawn) differs
\* from the pre-move grid; when moved, the score has grown by exactly the
\* returned gain and exactly one spawn step has run; and every move call
\* that returns moved = false returns a gain of 0, a legal direction or not.
C15_MovedIffChanged ==
    /\ MovedInDirection =>
        /\ last.moved = SomeCellDiffers(SlidOfLast, last.before.grid)
        /\ last.moved =>
            /\ board.score = last.before.score + last.gain
            /\ Len(last.spawns) = 1
            /\ last.spawns[1].pre.grid = SlidOfLast
            /\ last.spawns[1].post = board
    /\ (last.op = "move" /\ ~last.moved) => last.gain = 0

\* C15 witness: a move has slid tiles without merging any: moved with a
\* gain of 0, one spawn step, the score as before.
C15_Witness ==
    /\ MovedInDirection /\ last.moved
    /\ last.gain = 0
    /\ SomeCellDiffers(SlidOfLast, last.before.grid)
    /\ Len(last.spawns) = 1
    /\ board.score = last.before.score

\* The tiles of `out` with each flagged one put back as its two halves.
RECURSIVE Unmerge(_, _)
Unmerge(out, flags) ==
    IF out = <<>> THEN <<>>
    ELSE (IF Head(flags) THEN <<Head(out) \div 2, Head(out) \div 2>> ELSE <<Head(out)>>)
            \o Unmerge(Tail(out), Tail(flags))

\* C16: after a move in one of the four directions, before the spawn, every
\* line read in slide order has SIZE cells with no empty cell ahead of a
\* tile, and its tiles are the line's pre-move tiles in their order, some
\* neighbouring pairs replaced by their merged tile: the tiles that did not
\* merge keep their relative order.
C16_CompactedInOrder ==
    MovedInDirection =>
        \A i \in 1..SIZE :
            LET tiles == TilesOf(LineOf(last.before.grid, last.dir, i))
                res   == LineOf(last.slid, last.dir, i)
                out   == TilesOf(res)
            IN  /\ Len(res) = SIZE
                /\ \A k \in 1..(SIZE - 1) : res[k] = 0 => res[k + 1] = 0
                /\ \E flags \in [1..Len(out) -> BOOLEAN] : Unmerge(out, flags) = tiles

\* C16 witness: a move has packed a line that held a 2 and a 4 behind an
\* empty cell: the two tiles lead the line in their earlier order.
C16_Witness ==
    /\ MovedInDirection
    /\ \E i \in 1..SIZE :
        LET before == LineOf(last.before.grid, last.dir, i)
            res    == LineOf(last.slid, last.dir, i)
        IN  /\ before[1] = 0
            /\ TilesOf(before) \in {<<2, 4>>, <<4, 2>>}
            /\ SubSeq(res, 1, 2) = TilesOf(before)
            /\ res[3] = 0 /\ res[4] = 0

\* The number of merge events that turn the tiles of grid `before` into
\* those of grid `after`, counted from the numbers of tiles of each value as
\* in MergeEventSum.
RECURSIVE MergeEventCount(_, _, _, _)
MergeEventCount(before, after, v, below) ==
    IF v > Max2(MaxTile(before), MaxTile(after)) THEN 0
    ELSE LET m == (Count(before, v) + below - Count(after, v)) \div 2
         IN  m + MergeEventCount(before, after, 2 * v, m)

NumTiles(grid) == Cardinality(NonZeroCells(grid))

\* C18: after a successful move the grid holds an empty cell once slide and
\* merge are done, the spawn step adds exactly one tile, and the number of
\* tiles after the call is the number before, less the number of merges,
\* plus one.
C18_SuccessfulMoveSpawns ==
    (MovedInDirection /\ last.moved) =>
        LET slid == SlidOfLast IN
        /\ NonZeroCells(slid) # Cells
        /\ OneTileAdded(slid, board.grid)
        /\ NumTiles(board.grid) =
              NumTiles(last.before.grid)
                - MergeEventCount(last.before.grid, slid, 2, 0) + 1

\* C18 witness: a move on a full board has merged two pairs or more, and
\* the board holds one tile more than the merges left.
C18_Witness ==
    /\ MovedInDirection /\ last.moved
    /\ NonZeroCells(last.before.grid) = Cells
    /\ MergeEventCount(last.before.grid, SlidOfLast, 2, 0) >= 2
    /\ NumTiles(board.grid) = NumTiles(SlidOfLast) + 1

\* The sum of the values of all cells of a grid.
GridSum(grid) == SumSeq([r \in 1..SIZE |-> SumSeq(grid[r])])

\* C20: a move in one of the four directions leaves the sum of all cell
\* values unchanged up to the spawn; after a successful move the sum is the
\* pre-move sum plus the spawned value, a 2 or a 4; after an unsuccessful
\* move call, and after has_moves, the sum is the pre-call sum.
C20_MassConserved ==
    /\ MovedInDirection => GridSum(last.slid) = GridSum(last.before.grid)
    /\ (last.op = "move" /\ last.moved) =>
          GridSum(board.grid) - GridSum(last.before.grid) \in {2, 4}
    /\ (last.op = "move" /\ ~last.moved) \/ last.op = "has_moves" =>
          GridSum(board.grid) = GridSum(last.before.grid)

\* C20 witness: a move has merged two 4s into an 8 and the spawn has added
\* a 4 to the sum.
C20_Witness ==
    /\ MovedInDirection /\ last.moved
    /\ Count(last.slid, 8) = Count(last.before.grid, 8) + 1
    /\ GridSum(board.grid) = GridSum(last.before.grid) + 4

Directions == {"w", "a", "s", "d"}

\* C19: in every state has_moves is false exactly when move returns
\* moved = false in each of the four directions; from a state where it is
\* false every call other than restart leaves grid, score and stream
\* position as they were, a move returns moved = false, and has_moves stays
\* false; and a has_moves call changes none of grid, score and stream
\* position.
C19_TerminalAbsorbing ==
    /\ [](has_moves(board.grid) = (\E d \in Directions : move(board, seed, d).moved))
    /\ [](last.op = "has_moves" => board = last.before)
    /\ [][(~has_moves(board.grid) /\ last'.op # "restart") =>
            /\ board' = board
            /\ ~last'.moved
            /\ ~has_moves(board'.grid)]_vars

\* C19 witness: a move in one of the four directions has been made on a
\* full board where has_moves is false, and has changed nothing.
C19_Witness ==
    /\ MovedInDirection
    /\ ~has_moves(last.before.grid)
    /\ NonZeroCells(last.before.grid) = Cells
    /\ ~last.moved
    /\ board = last.before

\* C13: a spawn step run on a grid with no empty cell changes no cell and no
\* score and takes no draw, in the spawn step called alone and in every
\* spawn step of the last call.
C13_SpawnOnFullGrid ==
    /\ (last.op = "spawn" /\ NonZeroCells(last.before.grid) = Cells) => board = last.before
    /\ \A k \in 1..Len(last.spawns) :
        NonZeroCells(last.spawns[k].pre.grid) = Cells =>
            last.spawns[k].post = last.spawns[k].pre

\* C13 witness: the spawn step has been run on the full checkerboard board
\* and has left it as it was, the stream position included.
C13_Witness ==
    /\ last.op = "spawn"
    /\ last.before.grid = Checkerboard
    /\ board.grid = Checkerboard
    /\ board.pos = last.before.pos
    /\ board.score = last.before.score

\* C17: a spawn step on a grid with an empty cell takes one choice draw
\* among all empty cells and then one float draw, and its result is the grid
\* with the tile the two give: a 4 exactly when the float is below 0.10, a 2
\* otherwise; the score is untouched.
C17_SpawnDraws ==
    \A k \in 1..Len(last.spawns) :
        LET pre  == last.spawns[k].pre
            post == last.spawns[k].post
        IN  NonZeroCells(pre.grid) # Cells =>
                /\ post.pos = TileDrawn(pre.grid, pre.pos).pos
                /\ post.pos >= pre.pos + 3
                /\ post.score = pre.score
                /\ post.grid = TileDrawn(pre.grid, pre.pos).grid

\* C17 witness: the spawn step, run alone, has drawn the last of the empty
\* cells and then the least float that is not below 0.10, and has put a 2
\* there.
C17_Witness ==
    /\ last.op = "spawn"
    /\ rng_random(seed, board.pos - 2).value = [FourThreshold EXCEPT !.lo = @ + 1]
    /\ \E p \in Cells :
        /\ last.before.grid[p[1]][p[2]] = 0
        /\ board.grid[p[1]][p[2]] = 2
        /\ \A q \in Cells : RowMajorIndex(q) > RowMajorIndex(p) =>
                                 last.before.grid[q[1]][q[2]] # 0

\* The tiles of grid g lie against the named edge: toward that edge no empty
\* cell has a tile behind it.  Row 1 is the row drawn at the top.
PackedToward(g, edge) ==
    CASE edge = "up"    -> \A c \in 1..SIZE : \A r \in 1..(SIZE - 1) :
                              g[r][c] = 0 => g[r + 1][c] = 0
      [] edge = "down"  -> \A c \in 1..SIZE : \A r \in 2..SIZE :
                              g[r][c] = 0 => g[r - 1][c] = 0
      [] edge = "left"  -> \A r \in 1..SIZE : \A c \in 1..(SIZE - 1) :
                              g[r][c] = 0 => g[r][c + 1] = 0
      [] edge = "right" -> \A r \in 1..SIZE : \A c \in 2..SIZE :
                              g[r][c] = 0 => g[r][c - 1] = 0

ColumnSum(g, c) == SumSeq([r \in 1..SIZE |-> g[r][c]])

\* Grid `after` is grid `before` moved toward the named edge: packed against
\* it, every column (up, down) or every row (left, right) keeping its sum.
MovedToward(before, after, edge) ==
    /\ PackedToward(after, edge)
    /\ IF edge \in {"up", "down"}
       THEN \A c \in 1..SIZE : ColumnSum(after, c) = ColumnSum(before, c)
       ELSE \A r \in 1..SIZE : SumSeq(after[r]) = SumSeq(before[r])

\* The keys said to move the tiles, and a reading of them as edges.
DirectionKeys ==
    {<<"w">>, <<"a">>, <<"s">>, <<"d">>,
     <<ESC, "[", "A">>, <<ESC, "[", "B">>, <<ESC, "[", "C">>, <<ESC, "[", "D">>}

\* Every key sequence of DirectionKeys is read as a move command, and a move
\* made by the turn loop for one of them took the tiles toward the edge that
\* `edges` gives for it.
KeysMoveToward(edges) ==
    /\ \A k \in DirectionKeys : read_command(k) \in Directions
    /\ (last.op = "move" /\ last.keys \in DirectionKeys) =>
          MovedToward(last.before.grid, last.slid, edges[last.keys])

LetterEdges ==
    [k \in {<<"w">>, <<"a">>, <<"s">>, <<"d">>} |->
        CASE k = <<"w">> -> "up" [] k = <<"a">> -> "left"
          [] k = <<"s">> -> "down" [] k = <<"d">> -> "right"]

\* The edges of the arrow sequences: A up, B down, C right, D left.
ArrowEdges ==
    [k \in DirectionKeys \ DOMAIN LetterEdges |->
        CASE k[3] = "A" -> "up" [] k[3] = "B" -> "down"
          [] k[3] = "C" -> "right" [] k[3] = "D" -> "left"]

\* The edges of the arrow sequences taken in the order up, left, down, right.
ArrowEdgesInLetterOrder ==
    [k \in DirectionKeys \ DOMAIN LetterEdges |->
        CASE k[3] = "A" -> "up" [] k[3] = "B" -> "left"
          [] k[3] = "C" -> "down" [] k[3] = "D" -> "right"]

Edges(letters, arrows) ==
    [k \in DirectionKeys |-> IF k \in DOMAIN letters THEN letters[k] ELSE arrows[k]]

\* C14 as stated: w, a, s, d move the tiles up, left, down, right, and
\* ESC [ A, ESC [ B, ESC [ C, ESC [ D move them up, left, down, right.
C14_ArrowsInLetterOrder == KeysMoveToward(Edges(LetterEdges, ArrowEdgesInLetterOrder))

\* C14: input decoding makes w, a, s, d move the tiles up, left, down,
\* right, and ESC [ A, ESC [ B, ESC [ C, ESC [ D move them up, down, right,
\* left.
C14_KeysToDirections == KeysMoveToward(Edges(LetterEdges, ArrowEdges))

\* C14 witness: the turn loop has read ESC [ B and the tiles have gone down,
\* not to the left.
C14_Witness ==
    /\ last.op = "move" /\ last.moved
    /\ last.keys = <<ESC, "[", "B">>
    /\ MovedToward(last.before.grid, last.slid, "down")
    /\ ~PackedToward(last.slid, "left")

=============================================================================
